---- MODULE Spec2Model ----
(***************************************************************************)
(* Model of pyinputlanguage.macSwitchInputLanguage (src/pyinputlanguage.py) *)
(* together with the part of the macOS Text Input Source Services layer it  *)
(* talks to: the palette of installed input sources, the active source, and *)
(* the two entry points TISCreateInputSourceList / TISSelectInputSource.    *)
(*                                                                         *)
(* Native layer, as modelled:                                               *)
(*  - palette is the ordered list of installed sources; each has its       *)
(*    identifier, whether the user enabled it, and the OSStatus that        *)
(*    selecting it yields (0 when it can be selected);                      *)
(*  - a lookup that matches nothing yields either a null reference or an    *)
(*    empty list (nullOnNoMatch), the platform does not say which;          *)
(*  - a selection that reports a non-zero OSStatus leaves the active source *)
(*    alone, one that reports 0 makes its argument the active source.       *)
(*                                                                         *)
(* An unsigned 32-bit integer is kept as <<high 16 bits, low 16 bits>>.     *)
(***************************************************************************)
EXTENDS Integers, Sequences, FiniteSets, TLC

\* ------------------------------------------------------------------ bounds
MaxSources == 2
MaxCalls == 3
NumProcs == 2

\* --------------------------------------------------------------- constants
KB_US == "com.apple.keylayout.US"
KB_FRENCH == "com.apple.keylayout.French"
IM_JAPANESE == "com.apple.inputmethod.Kotoeri.Japanese"

\* identifiers a caller passes; the palettes below never hold IM_JAPANESE
InputSourceCodes == {KB_US, KB_FRENCH, IM_JAPANESE}
PaletteIDs == {KB_US, KB_FRENCH}

\* OSStatus values (signed 32-bit) the native selection can report:
\* noErr, paramErr, a value whose low 16 bits are zero, and the minimum
OSStatusCodes == {0, -50, 65536, (-2147483647) - 1}

Half == 65536

Procs == 1..NumProcs
Caller == 1

VARIABLES palette, active, nullOnNoMatch, loaded,
          pc, inputSourceCode, carbon, properties, lookupArgs,
          source_list, source, osstatus, status, exc, calls, activeAtCall

vars == <<palette, active, nullOnNoMatch, loaded,
          pc, inputSourceCode, carbon, properties, lookupArgs,
          source_list, source, osstatus, status, exc, calls, activeAtCall>>

\* ------------------------------------------------------------ native layer
InputSource == [TISPropertyInputSourceID : PaletteIDs,
                enabled : BOOLEAN,
                selectStatus : OSStatusCodes]

Palettes == UNION {[1..n -> InputSource] : n \in 1..MaxSources}

\* does the source have every property of the filter dictionary
Matches(src, filter) == \A k \in DOMAIN filter : src[k] = filter[k]

RECURSIVE MatchingFrom(_, _, _, _)
MatchingFrom(pal, i, filter, includeAllInstalled) ==
    IF i > Len(pal) THEN <<>>
    ELSE LET rest == MatchingFrom(pal, i + 1, filter, includeAllInstalled)
         IN IF Matches(pal[i], filter) /\ (includeAllInstalled \/ pal[i].enabled)
            THEN <<i>> \o rest
            ELSE rest

\* the native lookup: a reference to the list of matching sources (as their
\* positions in the palette), or the null reference
TISCreateInputSourceList(pal, nullIfNone, filter, includeAllInstalled) ==
    LET found == MatchingFrom(pal, 1, filter, includeAllInstalled)
    IN IF found = <<>> /\ nullIfNone
       THEN [null |-> TRUE, items |-> <<>>]
       ELSE [null |-> FALSE, items |-> found]

\* the native selection: the OSStatus it reports for a source
TISSelectInputSource(pal, src) == pal[src].selectStatus

\* the active source after the native selection of src reported st
ActiveAfterSelect(act, src, st) == IF st = 0 THEN src ELSE act

\* ------------------------------------------------------------ the function
\* PyObjCObject_New(ptr, 0, 1): the null pointer becomes None
objcify(ptr) == [isNone |-> ptr.null, items |-> ptr.items]

\* restype c_uint16: only the low 16 bits are read back
c_uint16(raw) == <<0, raw % Half>>

\* restype c_uint32: the OSStatus read back as an unsigned 32-bit integer
c_uint32(raw) == <<(raw \div Half) % Half, raw % Half>>

\* a library handle shared by all invocations
LoadLibraryCached(n) == 1

\* ctypes.cdll.LoadLibrary: a new handle for each load, n handles exist
LoadLibrary(n) == n + 1

\* the filter of the Objective-C sample, identifier written out
PropertiesFrench(code) == [TISPropertyInputSourceID |-> KB_FRENCH]

\* the NSDictionary built from {"TISPropertyInputSourceID": inputSourceCode}
Properties(code) == [TISPropertyInputSourceID |-> code]

\* second argument of the lookup call
IncludeAllInstalled == FALSE

\* source_list == None
IsNone(list) == list.isNone

\* source_list[-1]
LastEntry(list) == list.items[Len(list.items)]

\* source_list[0]
FirstEntry(list) == list.items[1]

\* status == 0
StatusIsZero(st) == st = <<0, 0>>

\* status != 0
StatusFailed(st) == st # <<0, 0>>

CarbonErrorPrefix ==
    "Carbon API failed to switch input method / keyboard layout. Error code: "

\* the message the code builds: a plain string literal, not an f-string
CarbonErrorMessage(st) == <<CarbonErrorPrefix, "{status}">>

NoException == [kind |-> "none", args |-> <<>>]

InputLanguageNotFoundError ==
    [kind |-> "InputLanguageNotFoundError",
     args |-> <<"The input method / keyboard layout specified was not found in the list of available input methodss / keyboard layouts of the user.">>]

IndexError == [kind |-> "IndexError", args |-> <<"index out of range">>]

CarbonError(st) == [kind |-> "CarbonError", args |-> CarbonErrorMessage(st)]

NoList == [isNone |-> TRUE, items |-> <<>>]
NoArgs == [filter |-> Properties(KB_US), includeAllInstalled |-> FALSE]
NoStatus == <<0, 0>>

Finished(p) == pc[p] \in {"returned", "raised"}
AtRest(p) == pc[p] = "idle" \/ Finished(p)

\* enabled, selectable, and the first enabled source carrying its identifier:
\* what a successful switch to that identifier leaves active
CanBeActive(pal, i) ==
    /\ pal[i].enabled
    /\ pal[i].selectStatus = 0
    /\ \A j \in 1..(i - 1) :
          pal[j].enabled =>
             pal[j].TISPropertyInputSourceID # pal[i].TISPropertyInputSourceID

InitWith(pals) ==
    /\ palette \in pals
    /\ nullOnNoMatch \in BOOLEAN
    /\ active \in {i \in 1..Len(palette) : CanBeActive(palette, i)}
    /\ loaded = 0
    /\ pc = [p \in Procs |-> "idle"]
    /\ inputSourceCode = [p \in Procs |-> KB_US]
    /\ carbon = [p \in Procs |-> 0]
    /\ properties = [p \in Procs |-> Properties(KB_US)]
    /\ lookupArgs = [p \in Procs |-> NoArgs]
    /\ source_list = [p \in Procs |-> NoList]
    /\ source = [p \in Procs |-> 0]
    /\ osstatus = [p \in Procs |-> 0]
    /\ status = [p \in Procs |-> NoStatus]
    /\ exc = [p \in Procs |-> NoException]
    /\ calls = [p \in Procs |-> <<>>]
    /\ activeAtCall = [p \in Procs |-> active]

\* before the first call: any palette, any source active that can be
Init == InitWith(Palettes)

\* palettes for the interleaved runs: com.apple.keylayout.US first, enabled
\* and selectable, then one more source of either identifier, enabled or
\* not, selectable or refusing with paramErr
ThreadPalettes ==
    {pal \in [1..2 -> InputSource] :
        /\ pal[1] = [TISPropertyInputSourceID |-> KB_US, enabled |-> TRUE,
                     selectStatus |-> 0]
        /\ pal[2].selectStatus \in {0, -50}}

InitThreads == InitWith(ThreadPalettes)

\* lines 42-65: entry, loading the library, declaring the two prototypes,
\* building the filter dictionary
Begin(p, code) ==
    /\ AtRest(p)
    /\ loaded < MaxCalls
    /\ loaded' = loaded + 1
    /\ carbon' = [carbon EXCEPT ![p] = LoadLibrary(loaded)]
    /\ inputSourceCode' = [inputSourceCode EXCEPT ![p] = code]
    /\ properties' = [properties EXCEPT ![p] = Properties(code)]
    /\ lookupArgs' = [lookupArgs EXCEPT ![p] = NoArgs]
    /\ source_list' = [source_list EXCEPT ![p] = NoList]
    /\ source' = [source EXCEPT ![p] = 0]
    /\ osstatus' = [osstatus EXCEPT ![p] = 0]
    /\ status' = [status EXCEPT ![p] = NoStatus]
    /\ exc' = [exc EXCEPT ![p] = NoException]
    /\ calls' = [calls EXCEPT ![p] = <<>>]
    /\ activeAtCall' = [activeAtCall EXCEPT ![p] = active]
    /\ pc' = [pc EXCEPT ![p] = "ready"]
    /\ UNCHANGED <<palette, active, nullOnNoMatch>>

\* lines 68-69: the native lookup and the wrapping of its result
CallLookup(p) ==
    /\ pc[p] = "ready"
    /\ lookupArgs' = [lookupArgs EXCEPT ![p] =
          [filter |-> properties[p], includeAllInstalled |-> IncludeAllInstalled]]
    /\ source_list' = [source_list EXCEPT ![p] =
          objcify(TISCreateInputSourceList(palette, nullOnNoMatch,
                                           properties[p], IncludeAllInstalled))]
    /\ calls' = [calls EXCEPT ![p] = Append(@, "TISCreateInputSourceList")]
    /\ pc' = [pc EXCEPT ![p] = "listed"]
    /\ UNCHANGED <<palette, active, nullOnNoMatch, loaded, inputSourceCode,
                   carbon, properties, source, osstatus, status, exc,
                   activeAtCall>>

\* lines 70-75: the None test, then indexing the list at 0
CheckList(p) ==
    /\ pc[p] = "listed"
    /\ IF IsNone(source_list[p])
       THEN /\ exc' = [exc EXCEPT ![p] = InputLanguageNotFoundError]
            /\ pc' = [pc EXCEPT ![p] = "raised"]
            /\ UNCHANGED source
       ELSE IF source_list[p].items = <<>>
       THEN /\ exc' = [exc EXCEPT ![p] = IndexError]
            /\ pc' = [pc EXCEPT ![p] = "raised"]
            /\ UNCHANGED source
       ELSE /\ source' = [source EXCEPT ![p] = FirstEntry(source_list[p])]
            /\ pc' = [pc EXCEPT ![p] = "sourced"]
            /\ UNCHANGED exc
    /\ UNCHANGED <<palette, active, nullOnNoMatch, loaded, inputSourceCode,
                   carbon, properties, lookupArgs, source_list, osstatus,
                   status, calls, activeAtCall>>

\* line 78: the native selection
CallSelect(p) ==
    /\ pc[p] = "sourced"
    /\ LET st == TISSelectInputSource(palette, source[p])
       IN /\ osstatus' = [osstatus EXCEPT ![p] = st]
          /\ status' = [status EXCEPT ![p] = c_uint32(st)]
          /\ active' = ActiveAfterSelect(active, source[p], st)
    /\ calls' = [calls EXCEPT ![p] = Append(@, "TISSelectInputSource")]
    /\ pc' = [pc EXCEPT ![p] = "selected"]
    /\ UNCHANGED <<palette, nullOnNoMatch, loaded, inputSourceCode, carbon,
                   properties, lookupArgs, source_list, source, exc,
                   activeAtCall>>

\* lines 79-80: the status test, then the implicit return
CheckStatus(p) ==
    /\ pc[p] = "selected"
    /\ IF StatusFailed(status[p])
       THEN /\ exc' = [exc EXCEPT ![p] = CarbonError(status[p])]
            /\ pc' = [pc EXCEPT ![p] = "raised"]
       ELSE /\ pc' = [pc EXCEPT ![p] = "returned"]
            /\ UNCHANGED exc
    /\ UNCHANGED <<palette, active, nullOnNoMatch, loaded, inputSourceCode,
                   carbon, properties, lookupArgs, source_list, source,
                   osstatus, status, calls, activeAtCall>>

\* one caller, one call after another
Next ==
    \/ \E code \in InputSourceCodes : Begin(Caller, code)
    \/ CallLookup(Caller)
    \/ CheckList(Caller)
    \/ CallSelect(Caller)
    \/ CheckStatus(Caller)

Spec == Init /\ [][Next]_vars

\* several threads calling, interleaved at every step
NextThreads ==
    \/ \E p \in Procs : \E code \in InputSourceCodes : Begin(p, code)
    \/ \E p \in Procs : CallLookup(p)
    \/ \E p \in Procs : CheckList(p)
    \/ \E p \in Procs : CallSelect(p)
    \/ \E p \in Procs : CheckStatus(p)

SpecThreads == InitThreads /\ [][NextThreads]_vars

\* ------------------------------------------------------------------ claims
SourceID(i) == palette[i].TISPropertyInputSourceID

Selected(p) == Len(calls[p]) = 2

\* decimal digits of an unsigned 32-bit integer, as str() renders it
RECURSIVE Decimal(_)
Decimal(u) ==
    LET qhi == u[1] \div 10
        mid == (u[1] % 10) * Half + u[2]
        qlo == mid \div 10
        d == mid % 10
        ch == <<"0", "1", "2", "3", "4", "5", "6", "7", "8", "9">>[d + 1]
    IN IF qhi = 0 /\ qlo = 0 THEN <<ch>>
       ELSE Decimal(<<qhi, qlo>>) \o <<ch>>

\* the lookup of p's call returned a non-empty list headed by a source that
\* carries the requested identifier
KnownPresent(p) ==
    /\ ~source_list[p].isNone
    /\ source_list[p].items # <<>>
    /\ SourceID(source_list[p].items[1]) = inputSourceCode[p]

\* C1 as stated: a call for a known-present identifier returns normally and
\* leaves that identifier active.
C1_PresentAlwaysSwitches ==
    \A p \in Procs :
       Finished(p) /\ KnownPresent(p) =>
          pc[p] = "returned" /\ SourceID(active) = inputSourceCode[p]

\* C1 amended: a call for a known-present identifier returns normally and
\* leaves that identifier active when the native selection of the first
\* entry reports 0, and raises CarbonError when it reports anything else.
C1_PresentSwitchesWhenSelectable ==
    \A p \in Procs :
       Finished(p) /\ KnownPresent(p) =>
          IF palette[source_list[p].items[1]].selectStatus = 0
          THEN pc[p] = "returned" /\ SourceID(active) = inputSourceCode[p]
          ELSE pc[p] = "raised" /\ exc[p].kind = "CarbonError"

C1_Witness ==
    /\ pc[Caller] = "returned"
    /\ KnownPresent(Caller)
    /\ active # activeAtCall[Caller]
    /\ SourceID(active) = inputSourceCode[Caller]

\* C2: a call whose lookup returned the null reference or an empty list
\* ends with InputLanguageNotFoundError.
C2_NotFoundOnNullOrEmpty ==
    \A p \in Procs :
       Finished(p) /\ (source_list[p].isNone \/ source_list[p].items = <<>>) =>
          exc[p].kind = "InputLanguageNotFoundError"

\* C3: after a lookup that returned a non-empty list, the call raises
\* CarbonError exactly when the OSStatus of the native selection is not 0
\* and returns exactly when it is 0, whatever the 32-bit value.
C3_CarbonErrorIffNonZero ==
    \A p \in Procs :
       Finished(p) /\ ~source_list[p].isNone /\ source_list[p].items # <<>> =>
          /\ Selected(p)
          /\ (pc[p] = "raised" /\ exc[p].kind = "CarbonError") <=> osstatus[p] # 0
          /\ pc[p] = "returned" <=> osstatus[p] = 0

C3_Witness ==
    /\ pc[Caller] = "raised"
    /\ exc[Caller].kind = "CarbonError"
    /\ osstatus[Caller] < 0
    /\ status[Caller][1] >= 32768

\* C4: the CarbonError raised for status s carries s: its message ends with
\* the decimal rendering of s.
C4_CarbonErrorCarriesStatus ==
    \A p \in Procs :
       pc[p] = "raised" /\ exc[p].kind = "CarbonError" =>
          exc[p].args = <<CarbonErrorPrefix>> \o Decimal(status[p])

\* C5: a call ends by returning, with InputLanguageNotFoundError or with
\* CarbonError, and in no other way.
C5_ThreeOutcomes ==
    \A p \in Procs :
       Finished(p) =>
          \/ pc[p] = "returned" /\ exc[p].kind = "none"
          \/ pc[p] = "raised" /\
                exc[p].kind \in {"InputLanguageNotFoundError", "CarbonError"}

\* C6: a call either returns with the requested identifier active, or
\* raises with the active source the one that was active when it began.
C6_Atomic ==
    \A p \in Procs :
       Finished(p) =>
          \/ /\ pc[p] = "returned"
             /\ exc[p].kind = "none"
             /\ SourceID(active) = inputSourceCode[p]
          \/ /\ pc[p] = "raised"
             /\ exc[p].kind # "none"
             /\ active = activeAtCall[p]

C6_Witness ==
    /\ pc[Caller] = "raised"
    /\ exc[Caller].kind = "CarbonError"
    /\ Selected(Caller)
    /\ source[Caller] # activeAtCall[Caller]
    /\ active = activeAtCall[Caller]

\* C7: a call with the identifier of the source that is active when it
\* begins returns normally and leaves that source active; so does a second
\* call in a row with the same identifier.
C7_Idempotent ==
    \A p \in Procs :
       Finished(p) /\ inputSourceCode[p] = SourceID(activeAtCall[p]) =>
          /\ pc[p] = "returned"
          /\ exc[p].kind = "none"
          /\ active = activeAtCall[p]

C7_Witness ==
    /\ pc[Caller] = "returned"
    /\ loaded >= 2
    /\ Selected(Caller)
    /\ inputSourceCode[Caller] = SourceID(activeAtCall[Caller])
    /\ active = activeAtCall[Caller]

\* C8: within a call the lookup is invoked once and first, the selection at
\* most once and after it, only on a list that is not None, with the first
\* entry of that list; a call that raised InputLanguageNotFoundError made
\* no selection.
C8_CallOrder ==
    \A p \in Procs :
       /\ calls[p] \in {<<>>, <<"TISCreateInputSourceList">>,
                        <<"TISCreateInputSourceList", "TISSelectInputSource">>}
       /\ Finished(p) => Len(calls[p]) >= 1
       /\ pc[p] \in {"sourced", "selected"} \/ Selected(p) =>
             /\ ~source_list[p].isNone
             /\ source_list[p].items # <<>>
             /\ source[p] = source_list[p].items[1]
       /\ exc[p].kind = "InputLanguageNotFoundError" =>
             calls[p] = <<"TISCreateInputSourceList">>

C8_Witness ==
    /\ Selected(Caller)
    /\ Len(source_list[Caller].items) >= 2
    /\ source[Caller] = 1

InstalledNotEnabled(code) ==
    /\ \E i \in 1..Len(palette) : SourceID(i) = code
    /\ \A i \in 1..Len(palette) : SourceID(i) = code => ~palette[i].enabled

\* C9: the lookup is made with the one-entry filter TISPropertyInputSourceID
\* -> identifier and includeAllInstalled false, and a call for an identifier
\* that is installed but not enabled raises InputLanguageNotFoundError
\* without any selection.
C9_OnlyEnabledSources ==
    \A p \in Procs :
       /\ Len(calls[p]) >= 1 =>
             /\ DOMAIN lookupArgs[p].filter = {"TISPropertyInputSourceID"}
             /\ lookupArgs[p].filter.TISPropertyInputSourceID = inputSourceCode[p]
             /\ lookupArgs[p].includeAllInstalled = FALSE
       /\ Finished(p) /\ InstalledNotEnabled(inputSourceCode[p]) =>
             /\ exc[p].kind = "InputLanguageNotFoundError"
             /\ calls[p] = <<"TISCreateInputSourceList">>

\* how a call for code ends, from the argument and the native layer alone
ExpectedOutcome(code) ==
    LET found == MatchingFrom(palette, 1, [TISPropertyInputSourceID |-> code], FALSE)
    IN IF found = <<>>
       THEN IF nullOnNoMatch THEN "InputLanguageNotFoundError" ELSE "IndexError"
       ELSE IF palette[found[1]].selectStatus = 0 THEN "returned" ELSE "CarbonError"

Outcome(p) == IF pc[p] = "returned" THEN "returned" ELSE exc[p].kind

\* C10: invocations that have begun hold library handles of their own, and
\* each ends the way its argument and the native layer decide, whatever the
\* other invocations did before or meanwhile.
C10_Independent ==
    /\ \A p \in Procs : \A q \in Procs :
          p # q /\ pc[p] # "idle" /\ pc[q] # "idle" => carbon[p] # carbon[q]
    /\ \A p \in Procs :
          Finished(p) => Outcome(p) = ExpectedOutcome(inputSourceCode[p])

C10_Witness ==
    /\ pc[1] = "selected"
    /\ pc[2] = "sourced"
    /\ inputSourceCode[1] # inputSourceCode[2]
    /\ active # activeAtCall[2]
    /\ carbon[1] > carbon[2]
====
